---- MODULE Spec2Model ----
(***************************************************************************)
(* A model of src/main.py: the simulated upload pipeline                   *)
(*   api_upload -> s3_put_object -> lambda_file_analyzer -> dynamodb_put_item *)
(* over a local filesystem, the interactive main_menu loop, and two        *)
(* interleaved dynamodb_put_item calls.                                    *)
(*                                                                         *)
(* The filesystem is a function from the paths that exist (sequences of    *)
(* components, relative to PROJECT_ROOT) to nodes.  Every procedure is     *)
(* an operator from a world [fs, tr] to an outcome [fs, tr, exc, ret]:     *)
(* fs is the filesystem it leaves, tr the procedures entered and left so   *)
(* far, exc the Python exception that escaped it ("" when it returned) and *)
(* ret its return value.                                                   *)
(***************************************************************************)
EXTENDS Integers, Sequences, FiniteSets, TLC

VARIABLES
    fs,      \* the filesystem under PROJECT_ROOT
    pre,     \* the filesystem when the last call began
    call,    \* the last call: procedure and arguments
    ret,     \* what the last call returned
    exc,     \* the exception that escaped the last call, "" if none
    tr,      \* the procedures the last call entered and left, in order
    hist,    \* every call made so far, in order
    db0,     \* what read_db returned when the behaviour began
    ncalls,  \* calls made so far (also the reading of the clock)
    pc,      \* main_menu: where the loop stands
    choice,  \* main_menu: the last option entered
    ppc,     \* concurrent dynamodb_put_item: each caller's position
    loc      \* concurrent dynamodb_put_item: each caller's item and local list

vars == <<fs, pre, call, ret, exc, tr, hist, db0, ncalls, pc, choice, ppc, loc>>

\* ------------------------------------------------------------------ bounds

\* Calls made in one behaviour of the library or of the menu.
MaxCalls == 3

\* ----------------------------------------------------------- configuration

PROJECT_ROOT == <<>>
DATA_DIR == <<"data">>
S3_DIR == <<"data", "s3", "uploads">>
DB_FILE == <<"data", "db", "dynamodb_mock.json">>
LOG_FILE == <<"logs", "lambda_output.log">>
SAMPLES_DIR == <<"sample_files">>
SAMPLE == <<"sample_files", "example.txt">>

TEXT_EXTS == {".txt", ".md", ".py", ".json", ".csv", ".log", ".ini", ".cfg"}

\* Files of the user, outside the program's own directories.
NOTES == <<"in", "notes.txt">>
IMAGE == <<"in", "image.png">>
TRACE_LOG == <<"in", "trace.LOG">>
GHOST == <<"in", "ghost.txt">>

\* The source paths a caller passes to api_upload.
SourcePaths == {SAMPLE, NOTES, IMAGE, TRACE_LOG, GHOST, SAMPLES_DIR}

\* ------------------------------------------------------------ pathlib.Path

\* Path.name: the last component.
Name(p) == IF Len(p) = 0 THEN "" ELSE p[Len(p)]

\* Path.parent
Parent(p) == IF Len(p) = 0 THEN p ELSE SubSeq(p, 1, Len(p) - 1)

\* Path / key, for a key that is a relative name; joining "" leaves the path.
Join(dir, key) == IF key = "" THEN dir ELSE Append(dir, key)

IsPrefix(s, t) == Len(s) <= Len(t) /\ SubSeq(t, 1, Len(s)) = s

\* Path.suffix of the names of the model.
Suffix(name) ==
    CASE name = "example.txt" -> ".txt"
      [] name = "notes.txt" -> ".txt"
      [] name = "ghost.txt" -> ".txt"
      [] name = "image.png" -> ".png"
      [] name = "trace.LOG" -> ".LOG"
      [] name = "dynamodb_mock.json" -> ".json"
      [] name = "lambda_output.log" -> ".log"
      [] OTHER -> ""

\* str.lower of the suffixes of the model.
Lower(s) == IF s = ".LOG" THEN ".log" ELSE s

\* mimetypes.guess_type on the suffixes of the model; "" is None.
GuessType(name) ==
    CASE Lower(Suffix(name)) = ".txt" -> "text/plain"
      [] Lower(Suffix(name)) = ".png" -> "image/png"
      [] Lower(Suffix(name)) = ".json" -> "application/json"
      [] OTHER -> ""

StartsWithText(mime) == mime \in {"text/plain"}

\* -------------------------------------------------------------- filesystem

\* A file's content.  form "raw": bytes that are no JSON document, known by
\* their identity (tag), length (size) and number of lines (lines).
\* form "array": the JSON text of the list items.  form "object": a JSON
\* document that is no list ("{}").  form "log": the lines of the log.
Raw(tag, size, lines) == [form |-> "raw", tag |-> tag, size |-> size, lines |-> lines]
JsonArray(items) == [form |-> "array", items |-> items]
JsonObject == [form |-> "object"]
LogText(msgs) == [form |-> "log", items |-> msgs]

Dir == [kind |-> "dir"]
File(data) == [kind |-> "file", data |-> data]

\* Path.exists, Path.is_file, Path.is_dir
Exists(f, p) == p \in DOMAIN f
IsFile(f, p) == p \in DOMAIN f /\ f[p].kind = "file"
IsDir(f, p) == p \in DOMAIN f /\ f[p].kind = "dir"

\* p and the directories above it.
Prefixes(p) == {SubSeq(p, 1, i) : i \in 0..Len(p)}

\* Path.mkdir(parents=True, exist_ok=True)
Mkdir(f, p) == [q \in {a \in Prefixes(p) : a \notin DOMAIN f} |-> Dir] @@ f

\* What opening p for writing raises: "" when it can be written.
WriteError(f, p) ==
    IF IsDir(f, p) THEN "IsADirectoryError"
    ELSE IF ~IsDir(f, Parent(p)) THEN "FileNotFoundError"
    ELSE ""

\* What opening p for reading raises: "" when it can be read.
ReadError(f, p) ==
    IF IsDir(f, p) THEN "IsADirectoryError"
    ELSE IF ~IsFile(f, p) THEN "FileNotFoundError"
    ELSE ""

\* Path.write_text / write_bytes where WriteError is "".
WriteFile(f, p, data) == (p :> File(data)) @@ f

SampleText == Raw("example", 59, 3)

\* ------------------------------------------------------------- outcomes

\* The return value of a procedure that returns None.
NoRet == [statusCode |-> 0, error |-> "", record |-> <<>>]

Returned(f, t, r) == [fs |-> f, tr |-> t, exc |-> "", ret |-> r]
Raised(f, t, e) == [fs |-> f, tr |-> t, exc |-> e, ret |-> NoRet]

\* F of the value of v: a local name for a value, computed once.
Once(v, F(_)) == CHOOSE r \in {F(x) : x \in {v}} : TRUE

\* ------------------------------------------------------------- bootstrap

ensure_dirs(w) ==
    Once(Mkdir(Mkdir(Mkdir(Mkdir(w.fs, S3_DIR), Parent(DB_FILE)), Parent(LOG_FILE)), SAMPLES_DIR), LAMBDA f1 :
    Once(IF ~Exists(f1, DB_FILE) THEN WriteFile(f1, DB_FILE, JsonArray(<<>>)) ELSE f1, LAMBDA f2 :
    Once(IF ~Exists(f2, LOG_FILE) THEN WriteFile(f2, LOG_FILE, LogText(<<>>)) ELSE f2, LAMBDA f3 :
    Returned(IF ~Exists(f3, SAMPLE) THEN WriteFile(f3, SAMPLE, SampleText) ELSE f3,
             Append(w.tr, "ensure_dirs"), NoRet))))

\* The log's lines carry no timestamp here.
append_log(f, msg) ==
    Once(Mkdir(f, Parent(LOG_FILE)), LAMBDA f1 :
    WriteFile(f1, LOG_FILE,
              LogText(Append(IF IsFile(f1, LOG_FILE) THEN f1[LOG_FILE].data.items ELSE <<>>, msg))))

\* json.loads of the store's text, [] on any exception: a list (list TRUE)
\* or another JSON value (list FALSE).
read_db(f) ==
    IF ReadError(f, DB_FILE) # "" THEN [list |-> TRUE, items |-> <<>>]
    ELSE IF f[DB_FILE].data.form = "array" THEN [list |-> TRUE, items |-> f[DB_FILE].data.items]
    ELSE IF f[DB_FILE].data.form = "object" THEN [list |-> FALSE, items |-> <<>>]
    ELSE [list |-> TRUE, items |-> <<>>]

\* A write_db that keeps only the newest item.
write_db_last(f, items) == WriteFile(f, DB_FILE, JsonArray(SubSeq(items, Len(items), Len(items))))

\* A write_db that writes nothing.
write_db_skip(f, items) == f

\* A write_db that reads the store again and adds the newest item to it.
write_db_merge(f, items) ==
    WriteFile(f, DB_FILE,
              JsonArray((IF IsFile(f, DB_FILE) /\ f[DB_FILE].data.form = "array"
                         THEN f[DB_FILE].data.items ELSE <<>>)
                        \o SubSeq(items, Len(items), Len(items))))

write_db(f, items) == WriteFile(f, DB_FILE, JsonArray(items))

\* ------------------------------------------------------------ S3 (simulated)

s3_get_object_path(key) == Join(S3_DIR, key)

s3_put_object(w, source_path, key) ==
    Once(ensure_dirs(w), LAMBDA w1 :
    Once(Append(w1.tr, "s3_put_object"), LAMBDA t1 :
    Once(Join(S3_DIR, key), LAMBDA dest :
    Once(Mkdir(w1.fs, Parent(dest)), LAMBDA f2 :
        IF ReadError(f2, source_path) # "" THEN Raised(f2, t1, ReadError(f2, source_path))
        ELSE IF WriteError(f2, dest) # "" THEN Raised(f2, t1, WriteError(f2, dest))
        ELSE Returned(append_log(WriteFile(f2, dest, f2[source_path].data),
                                 [msg |-> "S3 PutObject", key |-> key]),
                      t1, NoRet)))))

\* ------------------------------------------------------ DynamoDB (simulated)

\* An append that puts the item first.
ListAppendFront(items, item) == <<item>> \o items

\* list.append
ListAppend(items, item) == Append(items, item)

dynamodb_put_item(w, item) ==
    Once(read_db(w.fs), LAMBDA items :
    Once(Append(w.tr, "read_db"), LAMBDA t1 :
        IF ~items.list THEN Raised(w.fs, t1, "AttributeError")
        ELSE IF WriteError(w.fs, DB_FILE) # "" THEN Raised(w.fs, t1, WriteError(w.fs, DB_FILE))
        ELSE Returned(append_log(write_db(w.fs, ListAppend(items.items, item)),
                                 [msg |-> "DynamoDB PutItem", key |-> item.filename]),
                      Append(t1, "write_db"), NoRet)))

\* ---------------------------------------------------------- Lambda (simulated)

\* A digest is known by the bytes it was taken of.
Sha256(data) == <<"sha256", data.tag>>

\* A _looks_like_text that compares the suffix as written.
_looks_like_text_cased(path, mime) ==
    IF mime # "" /\ StartsWithText(mime) THEN TRUE
    ELSE Suffix(Name(path)) \in TEXT_EXTS

_looks_like_text(path, mime) ==
    IF mime # "" /\ StartsWithText(mime) THEN TRUE
    ELSE Lower(Suffix(Name(path))) \in TEXT_EXTS

\* Optional[int]: <<>> is None, <<n>> is n.  ioFail: opening or reading the
\* file raises (the except branch).
_count_lines_if_text(f, path, is_text, ioFail) ==
    IF ~is_text THEN <<>>
    ELSE IF ioFail \/ ReadError(f, path) # "" THEN <<>>
    ELSE <<f[path].data.lines>>

\* event["Records"][0]["s3"]["object"]["key"] raises nothing.
HasKey(event) ==
    /\ "Records" \in DOMAIN event
    /\ Len(event.Records) >= 1
    /\ "s3" \in DOMAIN event.Records[1]
    /\ "object" \in DOMAIN event.Records[1].s3
    /\ "key" \in DOMAIN event.Records[1].s3.object

\* The metadata of the object at path.
Metadata(f, key, path, mime, is_text, ioFail, now) ==
    [filename |-> key,
     size_bytes |-> f[path].data.size,
     mime_type |-> mime,
     sha256 |-> Sha256(f[path].data),
     line_count |-> _count_lines_if_text(f, path, is_text, ioFail),
     processed_utc |-> now,
     status |-> "Processed"]

\* lambda_file_analyzer from the object's path on.
Analyze(w, t1, key, path, ioFail, now) ==
    Once(IF GuessType(Name(path)) = "" THEN "application/octet-stream" ELSE GuessType(Name(path)), LAMBDA mime :
    Once(_looks_like_text(path, mime), LAMBDA is_text :
    Once(Metadata(w.fs, key, path, mime, is_text, ioFail, now), LAMBDA metadata :
    Once(dynamodb_put_item([fs |-> w.fs,
                            tr |-> IF is_text /\ ioFail
                                   THEN Append(t1, "_count_lines_if_text:except") ELSE t1],
                           metadata), LAMBDA put :
        IF put.exc # "" THEN put
        ELSE Returned(append_log(put.fs, [msg |-> "Lambda processed", key |-> key]),
                      Append(put.tr, "lambda_file_analyzer:return"),
                      [statusCode |-> 200, error |-> "", record |-> <<metadata>>])))))

lambda_file_analyzer(w, event, ioFail, now) ==
    Once(Append(w.tr, "lambda_file_analyzer:call"), LAMBDA t1 :
        IF ~HasKey(event)
        THEN Returned(append_log(w.fs, [msg |-> "Lambda received malformed event", key |-> ""]),
                      Append(t1, "lambda_file_analyzer:return"),
                      [statusCode |-> 400, error |-> "Malformed event", record |-> <<>>])
        ELSE Once(event.Records[1].s3.object.key, LAMBDA key :
            IF key.type # "str" THEN Raised(w.fs, t1, "TypeError")
            ELSE Once(s3_get_object_path(key.v), LAMBDA path :
                IF ~Exists(w.fs, path)
                THEN Returned(append_log(w.fs, [msg |-> "Lambda file not found", key |-> key.v]),
                              Append(t1, "lambda_file_analyzer:return"),
                              [statusCode |-> 404, error |-> "File not found", record |-> <<>>])
                ELSE IF ReadError(w.fs, path) # "" THEN Raised(w.fs, t1, ReadError(w.fs, path))
                ELSE Analyze(w, t1, key.v, path, ioFail, now))))

\* ----------------------------------------------------- API Gateway (simulated)

StrKey(k) == [type |-> "str", v |-> k]
S3Event(key) == [Records |-> << [s3 |-> [object |-> [key |-> key]]] >>]

api_upload(w, local_file, ioFail, now) ==
    Once(ensure_dirs(w), LAMBDA w1 :
        IF ~Exists(w1.fs, local_file)
        THEN Returned(w1.fs, w1.tr, [statusCode |-> 400, error |-> "Local file not found", record |-> <<>>])
        ELSE Once(s3_put_object([fs |-> w1.fs, tr |-> w1.tr], local_file, Name(local_file)), LAMBDA put :
            IF put.exc # "" THEN put
            ELSE lambda_file_analyzer([fs |-> put.fs, tr |-> put.tr],
                                      S3Event(StrKey(Name(local_file))), ioFail, now)))

\* ------------------------------------------------------------ initial states

\* The user's files, and nothing of the program's: a fresh checkout.
FreshFs ==
    (PROJECT_ROOT :> Dir) @@ (<<"in">> :> Dir)
    @@ (NOTES :> File(Raw("notes-v1", 12, 2)))
    @@ (IMAGE :> File(Raw("png", 8, 1)))
    @@ (TRACE_LOG :> File(Raw("trace", 5, 1)))

Bootstrapped == ensure_dirs([fs |-> FreshFs, tr |-> <<>>]).fs

\* f with the node at p replaced, and with it removed.
Replace(f, p, node) == (p :> node) @@ f
Remove(f, p) == [q \in DOMAIN f \ {p} |-> f[q]]

\* The filesystems a behaviour begins with: a fresh checkout, one that
\* ensure_dirs has set up, and one in which the sample was since removed,
\* or the store's file was removed or replaced by text that is no JSON or
\* by a JSON document that is no list.
InitFs ==
    {FreshFs, Bootstrapped, Remove(Bootstrapped, SAMPLE), Remove(Bootstrapped, DB_FILE),
     Replace(Bootstrapped, DB_FILE, File(Raw("garbage", 7, 1))),
     Replace(Bootstrapped, DB_FILE, File(JsonObject))}

NoCall == [op |-> "", path |-> <<>>, event |-> <<>>, item |-> <<>>, isfile |-> FALSE]

\* The part of the state that the menu and the concurrent callers own,
\* at rest.
Idle == pc = "off" /\ choice = "" /\ ppc = <<>> /\ loc = <<>>

Init ==
    /\ fs \in InitFs
    /\ pre = fs
    /\ db0 = read_db(fs)
    /\ call = NoCall
    /\ ret = NoRet
    /\ exc = ""
    /\ tr = <<>>
    /\ hist = <<>>
    /\ ncalls = 0
    /\ Idle

\* ------------------------------------------------------------------ calls

\* One call: from the state it began in to the outcome out.
Finish(c, result) ==
    \E out \in {result} :
    /\ pre' = fs
    /\ fs' = out.fs
    /\ tr' = out.tr
    /\ ret' = out.ret
    /\ exc' = out.exc
    /\ call' = c
    /\ hist' = Append(hist, c)
    /\ ncalls' = ncalls + 1
    /\ db0' = db0

World == [fs |-> fs, tr |-> <<>>]

\* The trigger events a caller passes to lambda_file_analyzer.
Events ==
    {S3Event(StrKey("notes.txt")), S3Event(StrKey("ghost.txt")), S3Event(StrKey("")),
     S3Event([type |-> "int", v |-> "5"]), [Records |-> <<>>]}

\* An item a caller passes to dynamodb_put_item.
ManualItem ==
    [filename |-> "manual.bin", size_bytes |-> 1, mime_type |-> "application/octet-stream",
     sha256 |-> <<"sha256", "manual">>, line_count |-> <<>>, processed_utc |-> 0,
     status |-> "Processed"]

CallEnsureDirs ==
    /\ ncalls < MaxCalls
    /\ Finish([NoCall EXCEPT !.op = "ensure_dirs"], ensure_dirs(World))
    /\ UNCHANGED <<pc, choice, ppc, loc>>

CallApiUpload ==
    /\ ncalls < MaxCalls
    /\ \E p \in SourcePaths, ioFail \in BOOLEAN :
          Finish([NoCall EXCEPT !.op = "api_upload", !.path = p, !.isfile = IsFile(fs, p)],
                 api_upload(World, p, ioFail, ncalls))
    /\ UNCHANGED <<pc, choice, ppc, loc>>

CallLambda ==
    /\ ncalls < MaxCalls
    /\ \E ev \in Events, ioFail \in BOOLEAN :
          Finish([NoCall EXCEPT !.op = "lambda_file_analyzer", !.event = ev],
                 lambda_file_analyzer(World, ev, ioFail, ncalls))
    /\ UNCHANGED <<pc, choice, ppc, loc>>

CallPutItem ==
    /\ ncalls < MaxCalls
    /\ Finish([NoCall EXCEPT !.op = "dynamodb_put_item", !.item = ManualItem],
              dynamodb_put_item(World, ManualItem))
    /\ UNCHANGED <<pc, choice, ppc, loc>>

Next == CallEnsureDirs \/ CallApiUpload \/ CallLambda \/ CallPutItem

Spec == Init /\ [][Next]_vars

\* ------------------------------------------------------------------ menu

\* list_samples: the files of SAMPLES_DIR, sorted.  The model holds one
\* path under SAMPLES_DIR, so the sorted list has at most that one.
list_samples(w) ==
    Once(ensure_dirs(w), LAMBDA w1 :
        [fs |-> w1.fs, tr |-> w1.tr,
         files |-> IF IsFile(w1.fs, SAMPLE) THEN <<SAMPLE>> ELSE <<>>])

\* api_upload of each file in turn, until one raises.
RECURSIVE UploadAll(_, _, _, _)
UploadAll(out, files, ioFail, now) ==
    IF files = <<>> \/ out.exc # "" THEN out
    ELSE Once(api_upload([fs |-> out.fs, tr |-> out.tr], Head(files), ioFail, now), LAMBDA next :
              UploadAll(next, Tail(files), ioFail, now))

run_demo(w, ioFail, now) ==
    Once(ensure_dirs(w), LAMBDA w1 :
    Once(list_samples([fs |-> w1.fs, tr |-> w1.tr]), LAMBDA ls :
        UploadAll(Returned(ls.fs, ls.tr, NoRet), ls.files, ioFail, now)))

\* What the user may type at "Pick a file number"; int() of it, where it
\* is a number.
IdxInputs == {"0", "1", "2", "x"}
IsInt(idx) == idx \in {"0", "1", "2"}
ParseInt(idx) == CASE idx = "0" -> 0 [] idx = "1" -> 1 [] idx = "2" -> 2 [] OTHER -> 0

\* files[k] of Python raises nothing: k from -len to len - 1.
IndexOk(files, k) == -Len(files) <= k /\ k < Len(files)
Index(files, k) == IF k >= 0 THEN files[k + 1] ELSE files[Len(files) + k + 1]

\* The entry point calls ensure_dirs and main_menu, which calls it again.
MenuInit ==
    /\ \E f \in InitFs :
          /\ fs = ensure_dirs([fs |-> ensure_dirs([fs |-> f, tr |-> <<>>]).fs, tr |-> <<>>]).fs
          /\ db0 = read_db(f)
    /\ pre = fs
    /\ call = NoCall
    /\ ret = NoRet
    /\ exc = ""
    /\ tr = <<>>
    /\ hist = <<>>
    /\ ncalls = 0
    /\ pc = "choose"
    /\ choice = ""
    /\ ppc = <<>>
    /\ loc = <<>>

\* An option is read while the loop waits for one.
Choose(c) ==
    /\ pc = "choose"
    /\ ncalls < MaxCalls
    /\ choice' = c
    /\ UNCHANGED <<ppc, loc>>

\* An exception that escapes the loop ends the program.
AfterCall(e) == IF e = "" THEN "pause" ELSE "crashed"

NoCallMade ==
    /\ ncalls' = ncalls + 1
    /\ UNCHANGED <<fs, pre, call, ret, exc, tr, hist, db0>>

Choice1 ==
    /\ Choose("1")
    /\ \E ioFail \in BOOLEAN : \E out \in {api_upload(World, SAMPLE, ioFail, ncalls)} :
          /\ Finish([NoCall EXCEPT !.op = "api_upload", !.path = SAMPLE, !.isfile = IsFile(fs, SAMPLE)], out)
          /\ pc' = AfterCall(out.exc)

\* Every exception of the selection and of the upload is caught here.
Choice2 ==
    /\ Choose("2")
    /\ \E idx \in IdxInputs, ioFail \in BOOLEAN : \E ls \in {list_samples(World)} :
          IF ls.files # <<>> /\ IsInt(idx) /\ IndexOk(ls.files, ParseInt(idx) - 1)
          THEN \E sel \in {Index(ls.files, ParseInt(idx) - 1)} :
               \E out \in {api_upload([fs |-> ls.fs, tr |-> ls.tr], sel, ioFail, ncalls)} :
                   Finish([NoCall EXCEPT !.op = "api_upload", !.path = sel, !.isfile = IsFile(fs, sel)],
                          [out EXCEPT !.exc = ""])
          ELSE Finish([NoCall EXCEPT !.op = "list_samples"], Returned(ls.fs, ls.tr, NoRet))
    /\ pc' = "pause"

Choice3 ==
    /\ Choose("3")
    /\ \E path \in SourcePaths, ioFail \in BOOLEAN : \E out \in {api_upload(World, path, ioFail, ncalls)} :
          /\ Finish([NoCall EXCEPT !.op = "api_upload", !.path = path, !.isfile = IsFile(fs, path)], out)
          /\ pc' = AfterCall(out.exc)

\* show_db reads the store and prints.
Choice4 ==
    /\ Choose("4")
    /\ NoCallMade
    /\ pc' = "pause"

\* show_logs reads the log, which raises where there is none.
Choice5 ==
    /\ Choose("5")
    /\ NoCallMade
    /\ pc' = AfterCall(ReadError(fs, LOG_FILE))

Choice6 ==
    /\ Choose("6")
    /\ \E ioFail \in BOOLEAN : \E out \in {run_demo(World, ioFail, ncalls)} :
          /\ Finish([NoCall EXCEPT !.op = "run_demo"], out)
          /\ pc' = AfterCall(out.exc)

\* The option that breaks out of the loop.
Choice0 ==
    /\ Choose("0")
    /\ NoCallMade
    /\ pc' = "exited"

\* Any other text, "7" among it: "Unknown option."
ChoiceOther ==
    /\ \E c \in {"7", "8", ""} : Choose(c)
    /\ NoCallMade
    /\ pc' = "pause"

\* "Press Enter to continue..."
PressEnter ==
    /\ pc = "pause"
    /\ pc' = "choose"
    /\ UNCHANGED <<fs, pre, call, ret, exc, tr, hist, db0, ncalls, choice, ppc, loc>>

MenuNext ==
    \/ Choice1 \/ Choice2 \/ Choice3 \/ Choice4 \/ Choice5 \/ Choice6
    \/ Choice0 \/ ChoiceOther \/ PressEnter

MenuSpec == MenuInit /\ [][MenuNext]_vars

\* ------------------------------------------------- concurrent dynamodb_put_item

Callers == {1, 2}

ItemOf(p) == [ManualItem EXCEPT !.filename = IF p = 1 THEN "one.bin" ELSE "two.bin"]

\* The name of caller p's step s in tr.
Step(p, s) ==
    CASE p = 1 /\ s = "read_db" -> "1:read_db"
      [] p = 1 /\ s = "write_db" -> "1:write_db"
      [] p = 2 /\ s = "read_db" -> "2:read_db"
      [] p = 2 /\ s = "write_db" -> "2:write_db"

\* Both callers have entered dynamodb_put_item, each with its own item; the
\* store may hold a record already.
ConcInit ==
    /\ fs \in InitFs \cup {Replace(Bootstrapped, DB_FILE, File(JsonArray(<<ManualItem>>)))}
    /\ pre = fs
    /\ db0 = read_db(fs)
    /\ call = NoCall
    /\ ret = NoRet
    /\ exc = ""
    /\ tr = <<>>
    /\ hist = <<>>
    /\ ncalls = 0
    /\ pc = "off"
    /\ choice = ""
    /\ ppc = [p \in Callers |-> "read"]
    /\ loc = [p \in Callers |-> [item |-> ItemOf(p), items |-> <<>>]]

ConcFrame == UNCHANGED <<pre, call, ret, exc, hist, db0, ncalls, pc, choice>>

\* items = read_db(); items.append(item)
PutRead(p) ==
    /\ ppc[p] = "read"
    /\ tr' = Append(tr, Step(p, "read_db"))
    /\ IF read_db(fs).list
       THEN /\ loc' = [loc EXCEPT ![p].items = ListAppend(read_db(fs).items, loc[p].item)]
            /\ ppc' = [ppc EXCEPT ![p] = "write"]
       ELSE /\ loc' = loc
            /\ ppc' = [ppc EXCEPT ![p] = "raised"]
    /\ fs' = fs
    /\ ConcFrame

\* write_db(items)
PutWrite(p) ==
    /\ ppc[p] = "write"
    /\ IF WriteError(fs, DB_FILE) = ""
       THEN /\ fs' = write_db(fs, loc[p].items)
            /\ tr' = Append(tr, Step(p, "write_db"))
            /\ ppc' = [ppc EXCEPT ![p] = "log"]
       ELSE /\ fs' = fs
            /\ tr' = tr
            /\ ppc' = [ppc EXCEPT ![p] = "raised"]
    /\ loc' = loc
    /\ ConcFrame

\* append_log(...), and the call returns
PutLog(p) ==
    /\ ppc[p] = "log"
    /\ fs' = append_log(fs, [msg |-> "DynamoDB PutItem", key |-> loc[p].item.filename])
    /\ ppc' = [ppc EXCEPT ![p] = "done"]
    /\ UNCHANGED <<tr, loc>>
    /\ ConcFrame

ConcNext == \E p \in Callers : PutRead(p) \/ PutWrite(p) \/ PutLog(p)

ConcSpec == ConcInit /\ [][ConcNext]_vars

\* ------------------------------------------------------------------ views

\* listRecords: what read_db returns where it returns a list.
Records(f) == IF read_db(f).list THEN read_db(f).items ELSE <<>>

\* The objects stored under the upload directory, with their content.
S3Objects(f) == [q \in {a \in DOMAIN f : IsPrefix(S3_DIR, a) /\ a # S3_DIR} |-> f[q]]

TypeOK ==
    /\ ncalls \in 0..MaxCalls
    /\ Len(hist) = ncalls
    /\ exc \in {"", "IsADirectoryError", "FileNotFoundError", "AttributeError", "TypeError"}

Range(t) == {t[i] : i \in 1..Len(t)}

\* Where x first stands in t; 0 when it does not.
Pos(t, x) == IF x \in Range(t) THEN CHOOSE i \in 1..Len(t) : t[i] = x /\ \A j \in 1..(i - 1) : t[j] # x ELSE 0

EmptyList == [list |-> TRUE, items |-> <<>>]

\* ------------------------------------------------------------------ C1

C1_Pre ==
    /\ db0 = EmptyList
    /\ \A i \in 1..Len(hist) : hist[i].op = "api_upload" /\ hist[i].isfile
    /\ \A i, j \in 1..Len(hist) : i # j => Name(hist[i].path) # Name(hist[j].path)

\* C1: when the behaviour began with a store that read_db reads as the empty
\* list and every call so far was an api_upload of an existing file, the base
\* names pairwise distinct, read_db returns as many records as there were
\* calls, and the i-th record's filename is the base name of the i-th file.
C1_UploadsInOrder ==
    C1_Pre =>
        /\ read_db(fs).list
        /\ Len(read_db(fs).items) = Len(hist)
        /\ \A i \in 1..Len(hist) : read_db(fs).items[i].filename = Name(hist[i].path)

C1_Witness == C1_Pre /\ Len(hist) = 3 /\ Len(read_db(fs).items) = 3

\* ------------------------------------------------------------------ C2

NoEffectOnStores == S3Objects(fs) = S3Objects(pre) /\ Records(fs) = Records(pre)

\* C2: api_upload of any path that does not exist when the call
\* begins returns a 4xx result, s3_put_object is not entered, and the stored
\* objects and the records are those of before.
C2_Claimed ==
    (call.op = "api_upload" /\ call.path \notin DOMAIN pre) =>
        /\ exc = ""
        /\ ret.statusCode \in 400..499
        /\ "s3_put_object" \notin Range(tr)
        /\ NoEffectOnStores

\* ------------------------------------------------------------------ C3

\* The key of a well-formed event, "" when the event has none that is a string.
EventKey(ev) ==
    IF HasKey(ev) /\ ev.Records[1].s3.object.key.type = "str" THEN ev.Records[1].s3.object.key.v ELSE ""

WellFormed(ev) == HasKey(ev) /\ ev.Records[1].s3.object.key.type = "str"

\* C3: lambda_file_analyzer on a well-formed event whose key has no object
\* in the content store returns 404 and leaves the records as they were.
C3_Claimed ==
    (/\ call.op = "lambda_file_analyzer"
     /\ WellFormed(call.event)
     /\ ~IsFile(pre, Join(S3_DIR, EventKey(call.event)))) =>
        /\ exc = ""
        /\ ret.statusCode = 404
        /\ Records(fs) = Records(pre)

\* ------------------------------------------------------------------ C4

\* C4: every api_upload and every lambda_file_analyzer returns, with a
\* statusCode of 200, 400 or 404; no exception escapes.
C4_Claimed ==
    call.op \in {"api_upload", "lambda_file_analyzer"} =>
        exc = "" /\ ret.statusCode \in {200, 400, 404}

\* ------------------------------------------------------------------ C5

\* The store's file holds the JSON text of a list.
ReadableStore(f) == IsFile(f, DB_FILE) /\ f[DB_FILE].data.form = "array"

\* C5: whatever the store's file holds when dynamodb_put_item is called,
\* its directory being there, read_db returns the empty list where the
\* file holds no readable list, and dynamodb_put_item returns and leaves a
\* list whose last element is the new item.
C5_Claimed ==
    (call.op = "dynamodb_put_item" /\ IsDir(pre, Parent(DB_FILE))) =>
        /\ ~ReadableStore(pre) => read_db(pre) = EmptyList
        /\ exc = ""
        /\ ReadableStore(fs)
        /\ Len(read_db(fs).items) >= 1
        /\ read_db(fs).items[Len(read_db(fs).items)] = call.item

\* ------------------------------------------------------------------ C6

HasRecordOf(f, name) == \E i \in 1..Len(Records(f)) : Records(f)[i].filename = name

\* C6: the records before a call are a prefix of the records after it, for
\* every call of every procedure; and an api_upload that succeeds on a base
\* name that already has a record adds one more record of that filename.
C6_AppendOnly ==
    /\ IsPrefix(Records(pre), Records(fs))
    /\ (call.op = "api_upload" /\ ret.statusCode = 200 /\ HasRecordOf(pre, Name(call.path))) =>
          /\ Len(Records(fs)) = Len(Records(pre)) + 1
          /\ Records(fs)[Len(Records(fs))].filename = Name(call.path)

C6_Witness ==
    /\ call.op = "api_upload" /\ ret.statusCode = 200
    /\ HasRecordOf(pre, Name(call.path))
    /\ Len(Records(fs)) = 3
    /\ Records(fs)[1].filename = Name(call.path)

\* ------------------------------------------------------------------ C7

\* Text-like in the claim's words, from the record and the key.
TextLike(rec) ==
    \/ rec.mime_type \in {"text/plain", "text/csv", "text/html", "text/markdown"}
    \/ Lower(Suffix(rec.filename)) \in {".txt", ".md", ".py", ".json", ".csv", ".log", ".ini", ".cfg"}

Produced == call.op \in {"api_upload", "lambda_file_analyzer"} /\ ret.statusCode = 200

\* C7 as claimed: the record's line_count is there exactly when the object
\* is text-like, also when counting the lines failed.
C7_Claimed == Produced => (ret.record[1].line_count # <<>> <=> TextLike(ret.record[1]))

\* C7 amended: the record's line_count is there exactly when the object is
\* text-like and counting its lines did not fail; when it fails the
\* line_count is null.
C7_LineCount ==
    Produced =>
        (ret.record[1].line_count # <<>> <=>
            (TextLike(ret.record[1]) /\ "_count_lines_if_text:except" \notin Range(tr)))

C7_Witness ==
    /\ Produced
    /\ ret.record[1].filename = "trace.LOG"
    /\ "_count_lines_if_text:except" \in Range(tr)
    /\ ret.record[1].line_count = <<>>
    /\ \E i, j \in 1..Len(Records(fs)) :
          /\ Records(fs)[i].filename = "image.png" /\ Records(fs)[i].line_count = <<>>
          /\ Records(fs)[j].filename = "notes.txt" /\ Records(fs)[j].line_count = <<2>>

\* ------------------------------------------------------------------ C8

\* C8 as claimed: lambda_file_analyzer leaves the records as they were, and
\* in an api_upload the store is written after lambda_file_analyzer returned.
C8_Claimed ==
    /\ call.op = "lambda_file_analyzer" => Records(fs) = Records(pre)
    /\ (call.op = "api_upload" /\ ret.statusCode = 200) =>
          Pos(tr, "lambda_file_analyzer:return") < Pos(tr, "write_db")

\* C8 amended: lambda_file_analyzer itself appends the record it returns:
\* when it returns 200 the store was written between its call and its
\* return and holds the records of before and then that record; api_upload
\* puts the object first and appends nothing of its own after
\* lambda_file_analyzer returned; any other outcome leaves the records.
C8_AnalyzerAppends ==
    call.op \in {"api_upload", "lambda_file_analyzer"} =>
        IF exc = "" /\ ret.statusCode = 200
        THEN /\ Records(fs) = Append(Records(pre), ret.record[1])
             /\ Pos(tr, "lambda_file_analyzer:call") < Pos(tr, "write_db")
             /\ Pos(tr, "write_db") < Pos(tr, "lambda_file_analyzer:return")
             /\ Pos(tr, "lambda_file_analyzer:return") = Len(tr)
             /\ call.op = "api_upload" =>
                   /\ Pos(tr, "s3_put_object") > 0
                   /\ Pos(tr, "s3_put_object") < Pos(tr, "lambda_file_analyzer:call")
        ELSE Records(fs) = Records(pre)

C8_Witness ==
    /\ call.op = "api_upload" /\ ret.statusCode = 200
    /\ Len(Records(fs)) = Len(Records(pre)) + 1
    /\ Pos(tr, "write_db") < Pos(tr, "lambda_file_analyzer:return")

\* ------------------------------------------------------------------ C9

BothDone == \A p \in Callers : ppc[p] = "done"

\* Both callers read the store before either wrote it.
BothReadFirst ==
    /\ Pos(tr, "1:read_db") < Pos(tr, "2:write_db")
    /\ Pos(tr, "2:read_db") < Pos(tr, "1:write_db")

Holds(f, item) == \E i \in 1..Len(Records(f)) : Records(f)[i] = item

\* C9: dynamodb_put_item reads, appends and writes without a guard: when
\* two calls with different items have both completed and both read before
\* either wrote, the store holds one record more than at the start, and of
\* the two items only one; when they did not overlap it holds both.
C9_LostUpdate ==
    BothDone =>
        IF BothReadFirst
        THEN /\ Len(Records(fs)) = Len(db0.items) + 1
             /\ Holds(fs, ItemOf(1)) # Holds(fs, ItemOf(2))
        ELSE Holds(fs, ItemOf(1)) /\ Holds(fs, ItemOf(2))

C9_Witness ==
    /\ BothDone
    /\ BothReadFirst
    /\ Holds(fs, ItemOf(2))
    /\ ~Holds(fs, ItemOf(1))

\* ------------------------------------------------------------------ C10

\* C10: once "7", the option shown as Exit, is entered, the loop has ended.
C10_Claimed == choice = "7" => pc = "exited"

====
